---- MODULE Spec2Model ----
(***************************************************************************)
(* Model of the outbound delivery subsystem of gobot:                      *)
(*   core/telegram/sender/dispatcher.go  (Dispatcher: NewDispatcher,       *)
(*                                        Enqueue, Close, worker,          *)
(*                                        handleJob, classifyError)        *)
(*   core/telegram/netutil/retry.go      (ShouldRetry)                     *)
(*   core/telegram/httpclient.go         (retryTransport.RoundTrip)        *)
(*   helpers (sendAsync), the caller of Enqueue                            *)
(*   RunTelegram, which obtains, installs and closes the dispatcher        *)
(*   core/telegram/middleware/rate_limit.go  (RateLimitMiddleware)         *)
(*                                                                         *)
(* Every Enqueue call, every Close call and every worker goroutine is a    *)
(* process; a step is taken at each access to state the goroutines share   *)
(* (the stop channel, the jobs channel, the sync.Once, the WaitGroup, the  *)
(* failure counter, a job's context).  Time is abstract: a timer may fire  *)
(* and a context may end at any moment.                                    *)
(*                                                                         *)
(* Spec is the dispatcher with its callers and FairSpec the same under a   *)
(* fair scheduler; SpecPools adds a pool of one worker and SpecOrder keeps *)
(* a record of the order of acceptance; SpecDeadline is a job's deadline   *)
(* on a clock; SpecRunTelegram is RunTelegram with its dispatcher;         *)
(* SpecTransport is the retrying HTTP transport and SpecConfig the same    *)
(* for any fields; SpecKinds applies the retry test and the classifier to  *)
(* single errors; SpecCtor applies NewDispatcher to single Options;        *)
(* SpecRateLimit is the rate limit middleware.                             *)
(***************************************************************************)
EXTENDS Integers, Sequences, FiniteSets, TLC

(* ------------------------------ bounds --------------------------------- *)
\* Enqueue calls made on the dispatcher (each by its own goroutine).
NCalls == 2
\* Close calls made on the dispatcher (each by its own goroutine).
NClosers == 2
\* Options of the dispatcher under check, as NewDispatcher keeps them.
Workers == 2
QueueSize == 1
MaxRetries == 1
RetryBackoff == 2

Calls == 1..NCalls
Closers == 1..NClosers

(* ------------------------------ errors --------------------------------- *)
\* A Go error value is the chain that errors.Unwrap walks, outermost error
\* first; nil is the empty chain.  Of every error of the chain the model
\* keeps its dynamic type, the Op of a *net.OpError, the answers of its own
\* Timeout() and Temporary() methods when it does not wrap (a *net.OpError
\* and a *url.Error ask the error they wrap), and its status: the Code of
\* a *tele.Error, or the number in parentheses that ends its message.
NoErr == <<>>

Layer(t, o, to, tmp, c) ==
    [type |-> t, op |-> o, timeout |-> to, temporary |-> tmp, code |-> c]

Leaf(t, to, tmp) == <<Layer(t, "", to, tmp, 0)>>

\* &net.OpError{Op: o, Err: e} and &url.Error{Err: e}.
OpError(o, e) == <<Layer("OpError", o, FALSE, FALSE, 0)>> \o e
UrlError(e) == <<Layer("urlError", "", FALSE, FALSE, 0)>> \o e

\* The Err() of an ended context: context.Canceled or
\* context.DeadlineExceeded.  handleJob treats the two alike (it stores and
\* reports the value, and never asks ShouldRetry about it), so one value
\* stands for both.
ErrContext == Leaf("context", FALSE, FALSE)
\* *tele.Error, an API answer such as "bad request (400)".
ErrAPI == <<Layer("api", "", FALSE, FALSE, 400)>>
\* syscall.ECONNREFUSED and syscall.ECONNRESET.
ErrRefused == Leaf("errno", FALSE, FALSE)
\* *net.OpError{Op: "dial"} around a refused connection.
ErrDial == OpError("dial", ErrRefused)

\* The errors a job's run returns in the model.
RunErrors == {ErrAPI, ErrDial}

\* The types that implement net.Error (Timeout and Temporary next to Error).
NetTypes == {"OpError", "urlError", "DNSError", "errno", "deadline", "poll"}

IsNetError(l) == l.type \in NetTypes

\* errors.As(err, &target), the target's type being one of ts: the chain
\* from the first error of one of those types on, or nil.
RECURSIVE As(_, _)
As(e, ts) ==
    IF e = <<>> THEN <<>>
    ELSE IF e[1].type \in ts THEN e
    ELSE As(Tail(e), ts)

\* e.Timeout() and e.Temporary() of a net.Error: (*net.OpError) and
\* (*url.Error) answer `t, ok := e.Err.(timeout); return ok && t.Timeout()`.
RECURSIVE Timeout(_)
Timeout(e) ==
    IF e[1].type \in {"OpError", "urlError"}
      THEN Len(e) > 1 /\ IsNetError(e[2]) /\ Timeout(Tail(e))
      ELSE e[1].timeout

RECURSIVE Temporary(_)
Temporary(e) ==
    IF e[1].type \in {"OpError", "urlError"}
      THEN Len(e) > 1 /\ IsNetError(e[2]) /\ Temporary(Tail(e))
      ELSE e[1].temporary


\* Mutant of ShouldRetry: no error is worth a retry.
ShouldRetryNever(e) == FALSE

\* netutil.ShouldRetry.
RECURSIVE ShouldRetry(_)
ShouldRetry(e) ==
    LET netErr == As(e, NetTypes)
        opErr == As(e, {"OpError"})
        urlErr == As(e, {"urlError"})
    IN IF e = NoErr THEN FALSE
       ELSE IF netErr # <<>> /\ (Timeout(netErr) \/ Temporary(netErr)) THEN TRUE
       ELSE IF opErr # <<>> /\ (Timeout(opErr) \/ opErr[1].op = "dial") THEN TRUE
       ELSE IF /\ opErr # <<>> /\ Len(opErr) > 1 /\ IsNetError(opErr[2])
               /\ (Timeout(Tail(opErr)) \/ Temporary(Tail(opErr))) THEN TRUE
       ELSE IF urlErr # <<>> /\ Timeout(urlErr) THEN TRUE
       ELSE IF urlErr # <<>> /\ Tail(urlErr) # <<>> THEN ShouldRetry(Tail(urlErr))
       ELSE FALSE

(* ------------------------------- state --------------------------------- *)
VARIABLES
    jobs,        \* d.jobs: the buffered channel's content, a sequence of jobs
    jobsClosed,  \* d.jobs has been closed
    stop,        \* d.stop has been closed
    onceDone,    \* d.once: its done flag
    onceM,       \* d.once: the closer that holds its mutex, 0 when free
    wg,          \* d.wg: the WaitGroup's counter
    errs,        \* d.errs
    call,        \* per Enqueue call: position, arguments and result
    closer,      \* per Close call: position
    waiting,     \* the workers blocked in `range d.jobs` (they are alike)
    ctxErr,      \* per job: "done" once its context has ended, else "none"
    job,         \* per job: its place, the locals of the handleJob call that
                 \* handles it, and what has happened to it
    rt,          \* per RoundTrip call of the retrying transport: its request,
                 \* its locals and what it has done
    probe,       \* an error under classification, and what was found of it
    ctor,        \* a NewDispatcher call: the options given, the options kept
    opts,        \* d.opts: the pool's size and the queue's capacity in effect
    tcfg,        \* the retrying transport's fields maxRetries and backoff
    order,       \* a record of the order of acceptance, where one is kept: the
                 \* accepted jobs from the oldest that handleJob has not
                 \* returned for
    dl,          \* a job's parent deadline, the times of its Enqueue and of
                 \* its handleJob, and the clock
    rl,          \* the rate limit middleware: the clock, userLastSeen, its
                 \* mutex, and the handler calls
    tg           \* the RunTelegram call and the helpers' globalDispatcher

vars == <<jobs, jobsClosed, stop, onceDone, onceM, wg, errs,
          call, closer, waiting, ctxErr, job, rt, probe, ctor, opts, order,
          tcfg, dl, rl, tg>>

\* The dispatcher's state.
dvars == <<jobs, jobsClosed, stop, onceDone, onceM, wg, errs,
           call, closer, waiting, ctxErr, job>>

\* The state outside the dispatcher under check.
outside == <<rt, probe, ctor, opts, tcfg, dl, rl, tg>>

\* What a step of the dispatcher that neither accepts a job nor ends one
\* leaves alone.
beside == <<outside, order>>

\* The state outside the retrying transport, outside the error under
\* classification, outside the NewDispatcher call.
besideTransport == <<dvars, probe, ctor, opts, order, tcfg, dl, rl, tg>>

besideKinds == <<dvars, rt, ctor, opts, order, tcfg, dl, rl, tg>>

besideCtor == <<dvars, rt, probe, opts, order, tcfg, dl, rl, tg>>

besideDeadline == <<dvars, rt, probe, ctor, opts, order, tcfg, rl, tg>>

besideRateLimit == <<dvars, rt, probe, ctor, opts, order, tcfg, dl, tg>>

besideRunTelegram ==
    <<dvars, rt, probe, ctor, opts, order, tcfg, dl, rl>>

\* A job: state is its place ("none" before it is accepted, "queued" in
\* d.jobs, "attempt", "backoff", "after" while a worker is in handleJob at
\* the head of the attempt loop, in the backoff select, past the loop, then
\* "succeeded", "failed" or "deadline"); attempt, lastErr, failureLogged are
\* handleJob's locals; runs counts the calls of j.run and results lists
\* what they returned, delays lists the backoff waits that ran to their
\* end, log the records handleJob has sent to the logger.
NewJob == [state |-> "none", attempt |-> 0, lastErr |-> NoErr,
           failureLogged |-> FALSE, runs |-> 0, results |-> <<>>,
           delays |-> <<>>, log |-> <<>>]

\* NewDispatcher: both channels open, the queue empty, Workers goroutines
\* started and counted in the WaitGroup.
DispatcherInit ==
    /\ jobs = <<>>
    /\ jobsClosed = FALSE
    /\ stop = FALSE
    /\ onceDone = FALSE
    /\ onceM = 0
    /\ wg = opts.Workers
    /\ errs = 0
    /\ call = [c \in Calls |-> [pc |-> "idle", run |-> "", res |-> "",
                                stopAtCall |-> FALSE, sync |-> 0]]
    /\ closer = [k \in Closers |-> "idle"]
    /\ waiting = opts.Workers
    /\ ctxErr = [c \in Calls |-> "none"]
    /\ job = [c \in Calls |-> NewJob]
    /\ order.jobs = <<>>


(* ------------------------------ Enqueue -------------------------------- *)
\* Mutant of StopClosed: the poll of d.stop never sees it closed.
StopNeverSeen == FALSE

\* `case <-d.stop:` of Enqueue's first select is ready.
StopClosed == stop


\* Mutant of HasRoom: the send is taken whatever the buffer holds.
HasRoomAlways == TRUE

\* `case d.jobs <- j:` can proceed on the open channel: the buffer of
\* make(chan job, opts.QueueSize) has room.
HasRoom == Len(jobs) < opts.QueueSize

\* The Enqueue calls are alike, so they are numbered in the order in which
\* they begin.
FirstIdleCall(c) == \A b \in Calls : b < c => call[b].pc # "idle"


\* Mutant of RunIsNil: the nil check is missing.
RunNeverNil(run) == FALSE

\* The nil check of Enqueue.
RunIsNil(run) == run = "nil"

\* helpers.sendAsync, which makes the Enqueue calls: on ErrQueueFull and
\* on ErrQueueClosed it calls run itself, `return run()`; on any other
\* error it returns the error, on nil it returns nil.
IsFallback(res) == res \in {"ErrQueueFull", "ErrQueueClosed"}

\* The calls of run that sendAsync makes once Enqueue has returned res.
SyncRuns(res) == IF IsFallback(res) THEN 1 ELSE 0

\* sendAsync with no dispatcher installed (currentDispatcher() is nil, as
\* before SetDispatcher and after SetDispatcher(nil)): `return run()`, and
\* Enqueue is not called.
SendAsyncDirect(c) ==
    /\ UNCHANGED beside
    /\ call[c].pc = "idle"
    /\ FirstIdleCall(c)
    /\ call' = [call EXCEPT ![c] = [pc |-> "done", run |-> "func",
                    res |-> "none", stopAtCall |-> FALSE, sync |-> 1]]
    /\ UNCHANGED <<jobs, jobsClosed, stop, onceDone, onceM, wg, errs,
                   closer, waiting, ctxErr, job>>

\* Enqueue up to its second select: the nil check, then the poll of d.stop.
\* The caller passes a nil or a non-nil run.
EnqueueBegin(c) ==
    /\ UNCHANGED beside
    /\ call[c].pc = "idle"
    /\ FirstIdleCall(c)
    /\ \E run \in {"nil", "func"} :
         call' = IF RunIsNil(run)
                   THEN [call EXCEPT ![c] = [pc |-> "done", run |-> run,
                             res |-> "ErrNilRun", stopAtCall |-> stop,
                             sync |-> SyncRuns("ErrNilRun")]]
                 ELSE IF StopClosed
                   THEN [call EXCEPT ![c] = [pc |-> "done", run |-> run,
                             res |-> "ErrQueueClosed", stopAtCall |-> stop,
                             sync |-> SyncRuns("ErrQueueClosed")]]
                 ELSE [call EXCEPT ![c] = [pc |-> "send", run |-> run,
                             res |-> "", stopAtCall |-> stop, sync |-> 0]]
    /\ UNCHANGED <<jobs, jobsClosed, stop, onceDone, onceM, wg, errs,
                   closer, waiting, ctxErr, job>>

\* The record of the order of acceptance once job c is accepted.
Noted(o, c) == IF o.kept THEN [o EXCEPT !.jobs = Append(@, c)] ELSE o

\* Mutant of Send: the job goes in ahead of the queued ones.
SendInFront(q, c) == <<c>> \o q

\* The channel's buffer after `d.jobs <- j`: the job is its newest.
Send(q, c) == Append(q, c)

\* Enqueue's second select.  A send on a closed channel panics, also as a
\* case of a select with a default; the panic goes up through sendAsync.
EnqueueSend(c) ==
    /\ UNCHANGED outside
    /\ call[c].pc = "send"
    /\ IF jobsClosed
         THEN /\ call' = [call EXCEPT ![c].pc = "done", ![c].res = "panic"]
              /\ UNCHANGED <<jobs, job, order>>
       ELSE IF HasRoom
         THEN /\ jobs' = Send(jobs, c)
              /\ job' = [job EXCEPT ![c].state = "queued"]
              /\ order' = Noted(order, c)
              /\ call' = [call EXCEPT ![c].pc = "done", ![c].res = "nil",
                                      ![c].sync = SyncRuns("nil")]
       ELSE /\ call' = [call EXCEPT ![c].pc = "done", ![c].res = "ErrQueueFull",
                                    ![c].sync = SyncRuns("ErrQueueFull")]
            /\ UNCHANGED <<jobs, job, order>>
    /\ UNCHANGED <<jobsClosed, stop, onceDone, onceM, wg, errs,
                   closer, waiting, ctxErr>>

(* ------------------------------- Close --------------------------------- *)
\* sync.Once.Do, fast path: the load of done.
OnceFastDone == onceDone


\* Mutant of OnceSlowDone: doSlow runs f whatever done holds.
OnceSlowNeverDone == FALSE

\* sync.Once.doSlow after Lock: done is read again under the mutex.
OnceSlowDone == onceDone


\* Mutant of WaitReturns: Close does not wait for the workers.
WaitReturnsAtOnce == TRUE

\* d.wg.Wait() returns.
WaitReturns == wg = 0

\* The Close calls are alike, so they are numbered in the order in which
\* they begin.
FirstIdleCloser(k) == \A b \in Closers : b < k => closer[b] # "idle"

\* d.once.Do up to f: with done set Do returns (from the fast path or, in
\* doSlow, once the mutex is free); else the caller takes the mutex, or
\* waits for it.
CloseBegin(k) ==
    /\ UNCHANGED beside
    /\ closer[k] \in {"idle", "doSlow"}
    /\ closer[k] = "idle" => FirstIdleCloser(k)
    /\ IF closer[k] = "idle" /\ OnceFastDone
         THEN /\ closer' = [closer EXCEPT ![k] = "returned"]
              /\ UNCHANGED onceM
       ELSE IF onceM # 0
         THEN /\ closer[k] = "idle"
              /\ closer' = [closer EXCEPT ![k] = "doSlow"]
              /\ UNCHANGED onceM
       ELSE IF OnceSlowDone
         THEN /\ closer' = [closer EXCEPT ![k] = "returned"]
              /\ UNCHANGED onceM
       ELSE /\ closer' = [closer EXCEPT ![k] = "closeStop"]
            /\ onceM' = k
    /\ UNCHANGED <<jobs, jobsClosed, stop, onceDone, wg, errs,
                   call, waiting, ctxErr, job>>

\* close(d.stop); closing a closed channel panics (the deferred calls of
\* doSlow then set done and release the mutex).
CloseStop(k) ==
    /\ UNCHANGED beside
    /\ closer[k] = "closeStop"
    /\ IF stop
         THEN /\ closer' = [closer EXCEPT ![k] = "panic"]
              /\ onceDone' = TRUE
              /\ onceM' = 0
              /\ UNCHANGED stop
         ELSE /\ closer' = [closer EXCEPT ![k] = "closeJobs"]
              /\ stop' = TRUE
              /\ UNCHANGED <<onceDone, onceM>>
    /\ UNCHANGED <<jobs, jobsClosed, wg, errs, call, waiting, ctxErr, job>>

\* close(d.jobs)
CloseJobs(k) ==
    /\ UNCHANGED beside
    /\ closer[k] = "closeJobs"
    /\ IF jobsClosed
         THEN /\ closer' = [closer EXCEPT ![k] = "panic"]
              /\ onceDone' = TRUE
              /\ onceM' = 0
              /\ UNCHANGED jobsClosed
         ELSE /\ closer' = [closer EXCEPT ![k] = "wait"]
              /\ jobsClosed' = TRUE
              /\ UNCHANGED <<onceDone, onceM>>
    /\ UNCHANGED <<jobs, stop, wg, errs, call, waiting, ctxErr, job>>

\* d.wg.Wait(), then the deferred done.Store(1) and Unlock of doSlow.
CloseWait(k) ==
    /\ UNCHANGED beside
    /\ closer[k] = "wait"
    /\ WaitReturns
    /\ closer' = [closer EXCEPT ![k] = "returned"]
    /\ onceDone' = TRUE
    /\ onceM' = 0
    /\ UNCHANGED <<jobs, jobsClosed, stop, wg, errs, call, waiting, ctxErr, job>>


(* --------------------------- worker, handleJob ------------------------- *)
\* attempts := d.opts.MaxRetries + 1
Attempts == MaxRetries + 1


\* Mutant of Delay: the attempt number taken as the duration, RetryBackoff
\* left out.
DelayUnscaled(attempt) == attempt

\* delay := d.opts.RetryBackoff * time.Duration(attempt)
Delay(attempt) == RetryBackoff * attempt


\* Mutant of GivesUp: every error is retried until the attempts run out.
GivesUpOnLastOnly(err, attempt) == attempt = MaxRetries + 1

\* Mutant of GivesUp: the count of attempts is not looked at.
GivesUpOnErrorOnly(err, attempt) == ~ShouldRetry(err)

\* The test that ends the attempt loop after a failed run.
GivesUp(err, attempt) == ~ShouldRetry(err) \/ attempt = Attempts

\* Mutant of DeadlineErr: the context is never seen to have ended.
DeadlineNeverSeen(j) == NoErr

\* deadlineCtx.Err() of job j: nil while the context is live.
DeadlineErr(j) == IF ctxErr[j] = "done" THEN ErrContext ELSE NoErr

\* A record sent to the logger: its event, its attempt or attempts
\* attribute (0 when absent) and its error (NoErr when absent).
\* logger.Debug(ctx, "tg.sender", "send.start", ...)
StartRecord == [event |-> "send.start", attempt |-> 0, err |-> NoErr]

\* logger.Debug(ctx, "tg.sender", "send.retry.backoff", ...)
BackoffRecord(attempt) ==
    [event |-> "send.retry.backoff", attempt |-> attempt, err |-> NoErr]

\* `if attempt > 1 { logger.Info(ctx, "tg.sender", "send.retry.success", ...) }`
RetrySuccessRecords(attempt) ==
    IF attempt > 1
      THEN <<[event |-> "send.retry.success", attempt |-> attempt, err |-> NoErr]>>
      ELSE <<>>

\* logSendSuccess: the record carries the attempt only when it is above 1.
SuccessRecord(attempt) ==
    [event |-> "send.success", attempt |-> IF attempt > 1 THEN attempt ELSE 0,
     err |-> NoErr]

\* logSendFailure: the record carries the error and, when positive, the
\* attempts it is given.
FailureRecord(err, attempts) ==
    [event |-> "send.fail", attempt |-> IF attempts > 0 THEN attempts ELSE 0,
     err |-> err]

Handled(j) == job[j].state \in {"attempt", "backoff", "after"}

\* The order of acceptance o from its oldest job that handleJob has not
\* returned for, the jobs being as in jb.
RECURSIVE Unfinished(_, _)
Unfinished(o, jb) ==
    IF o = <<>> THEN <<>>
    ELSE IF jb[Head(o)].state \in {"succeeded", "failed", "deadline", "ended"}
      THEN Unfinished(Tail(o), jb)
    ELSE o


\* Mutant of RangeEnds: the loop ends on the close, whatever is queued.
RangeEndsOnClose == jobsClosed

\* `for j := range d.jobs` on the closed and drained channel: the loop ends.
RangeEnds == jobsClosed /\ jobs = <<>>

\* Mutant of Dequeue: the receive hands out the oldest job and leaves it
\* in the channel.
DequeueKeeps(q) == q

\* The channel's buffer after a receive: the oldest job has left it.
Dequeue(q) == Tail(q)

\* `for j := range d.jobs`: a waiting worker receives the oldest job and
\* enters handleJob.
WorkerRecv ==
    /\ UNCHANGED beside
    /\ waiting > 0
    /\ jobs # <<>>
    /\ waiting' = waiting - 1
    /\ job' = [job EXCEPT ![Head(jobs)].state = "attempt",
                          ![Head(jobs)].attempt = 1,
                          ![Head(jobs)].log = Append(@, StartRecord)]
    /\ jobs' = Dequeue(jobs)
    /\ UNCHANGED <<jobsClosed, stop, onceDone, onceM, wg, errs, call, closer, ctxErr>>

\* A waiting worker leaves the loop; the deferred d.wg.Done() runs.
WorkerExit ==
    /\ UNCHANGED beside
    /\ waiting > 0
    /\ RangeEnds
    /\ waiting' = waiting - 1
    /\ wg' = wg - 1
    /\ UNCHANGED <<jobs, jobsClosed, stop, onceDone, onceM, errs, call, closer,
                   ctxErr, job>>

\* The head of the attempt loop with the context ended: lastErr = err; break.
AttemptDeadline(j) ==
    /\ UNCHANGED beside
    /\ job[j].state = "attempt"
    /\ DeadlineErr(j) # NoErr
    /\ job' = [job EXCEPT ![j].lastErr = DeadlineErr(j), ![j].state = "after"]
    /\ UNCHANGED <<jobs, jobsClosed, stop, onceDone, onceM, wg, errs,
                   call, closer, waiting, ctxErr>>

\* The head of the attempt loop with the context live: j.run() is invoked
\* and returns nil or an error.  On nil handleJob returns and the worker
\* is back in the receive.
AttemptRun(j) ==
    /\ UNCHANGED outside
    /\ job[j].state = "attempt"
    /\ DeadlineErr(j) = NoErr
    /\ \E err \in RunErrors \cup {NoErr} :
        LET a == job[j].attempt
            ran == [job EXCEPT ![j].runs = @ + 1,
                               ![j].results = Append(@, err)]
        IN IF err = NoErr
             THEN /\ job' = [ran EXCEPT
                               ![j].log = Append(@ \o RetrySuccessRecords(a),
                                                 SuccessRecord(a)),
                               ![j].state = "succeeded"]
                  /\ waiting' = waiting + 1
           ELSE IF GivesUp(err, a)
             THEN /\ job' = [ran EXCEPT
                               ![j].log = Append(@, FailureRecord(err, Attempts)),
                               ![j].lastErr = err,
                               ![j].failureLogged = TRUE,
                               ![j].state = "after"]
                  /\ UNCHANGED waiting
           ELSE /\ job' = [ran EXCEPT ![j].lastErr = err, ![j].state = "backoff"]
                /\ UNCHANGED waiting
    /\ order' = [order EXCEPT !.jobs = Unfinished(@, job')]
    /\ UNCHANGED <<jobs, jobsClosed, stop, onceDone, onceM, wg, errs,
                   call, closer, ctxErr>>


\* Mutant of DoneReady: the backoff wait is a plain sleep, deaf to the
\* context.
DoneNeverReady(j) == FALSE

\* `case <-deadlineCtx.Done():` of the backoff select is ready.
DoneReady(j) == DeadlineErr(j) # NoErr

\* The backoff select, `case <-deadlineCtx.Done():`.
BackoffDeadline(j) ==
    /\ UNCHANGED beside
    /\ job[j].state = "backoff"
    /\ DoneReady(j)
    /\ job' = [job EXCEPT
                 ![j].log = Append(@, FailureRecord(DeadlineErr(j), Attempts)),
                 ![j].lastErr = DeadlineErr(j),
                 ![j].failureLogged = TRUE,
                 ![j].state = "after"]
    /\ UNCHANGED <<jobs, jobsClosed, stop, onceDone, onceM, wg, errs,
                   call, closer, waiting, ctxErr>>

\* The backoff select, `case <-timer.C:`: the delay has passed; continue.
BackoffTimer(j) ==
    /\ UNCHANGED beside
    /\ job[j].state = "backoff"
    /\ job' = [job EXCEPT ![j].delays = Append(@, Delay(job[j].attempt)),
                          ![j].log = Append(@, BackoffRecord(job[j].attempt)),
                          ![j].attempt = @ + 1,
                          ![j].state = "attempt"]
    /\ UNCHANGED <<jobs, jobsClosed, stop, onceDone, onceM, wg, errs,
                   call, closer, waiting, ctxErr>>

\* The terminal outcome of a job that did not succeed: "deadline" when its
\* last error is its context's, else "failed".
FailedState(j) == IF job[j].lastErr = DeadlineErr(j) THEN "deadline" ELSE "failed"


\* Mutant of ErrsAdd: the increment is lost.
ErrsAddLost == errs

\* d.errs.Add(1)
ErrsAdd == errs + 1


\* Mutant of FailureLogged: the flag is not looked at after the loop.
FailureNeverLogged(j) == FALSE

\* `failureLogged` of the handleJob call of job j, as read after the loop.
FailureLogged(j) == job[j].failureLogged

\* After the loop: `if lastErr != nil { d.errs.Add(1); ... }`; handleJob
\* returns and the worker is back in the receive.
AfterLoop(j) ==
    /\ UNCHANGED outside
    /\ job[j].state = "after"
    /\ IF job[j].lastErr # NoErr
         THEN /\ errs' = ErrsAdd
              /\ job' = [job EXCEPT
                   ![j].log = IF FailureLogged(j) THEN @
                              ELSE Append(@, FailureRecord(job[j].lastErr, Attempts)),
                   ![j].state = FailedState(j)]
         ELSE /\ job' = [job EXCEPT ![j].state = "ended"]
              /\ UNCHANGED errs
    /\ waiting' = waiting + 1
    /\ order' = [order EXCEPT !.jobs = Unfinished(@, job')]
    /\ UNCHANGED <<jobs, jobsClosed, stop, onceDone, onceM, wg,
                   call, closer, ctxErr>>

(* ------------------------------ contexts ------------------------------- *)
\* The context of a job ends: its parent is cancelled, or its deadline
\* (the parent's, or MaxDuration once handleJob runs) passes.  Only
\* handleJob reads it, at the head of the loop and in the backoff select.
CtxEnds(j) ==
    /\ UNCHANGED beside
    /\ ctxErr[j] = "none"
    /\ job[j].state \in {"queued", "attempt", "backoff"}
    /\ ctxErr' = [ctxErr EXCEPT ![j] = "done"]
    /\ UNCHANGED <<jobs, jobsClosed, stop, onceDone, onceM, wg, errs,
                   call, closer, waiting, job>>

(* ------------------------- retrying transport -------------------------- *)
\* core/telegram/httpclient.go: retryTransport.RoundTrip, as BuildHTTPClient
\* sets it up.  A RoundTrip call is a process; the answers of the base
\* transport and of req.GetBody are inputs; during a backoff the request's
\* context may end and the timer may fire at any moment.

\* RoundTrip calls in flight on the one transport.
NRoundTrips == 2
RoundTrips == 1..NRoundTrips

\* defaultRetryAttempts, defaultRetryBackoff (in seconds): the maxRetries
\* and backoff that BuildHTTPClient gives the transport.
defaultRetryAttempts == 3
defaultRetryBackoff == 2

\* The fields of the transport that BuildHTTPClient makes.
BuiltConfig == [maxRetries |-> defaultRetryAttempts,
                backoff |-> defaultRetryBackoff]

\* *net.OpError{Op: "read"} around a reset connection: not retried.
ErrReset == OpError("read", ErrRefused)
\* What req.GetBody returns when it fails.
ErrGetBody == Leaf("getBody", FALSE, FALSE)
\* The errors base.RoundTrip returns in the model.
BaseErrors == {ErrDial, ErrReset}

\* The requests: without a body; with a body and a GetBody ("replay");
\* with a body and no GetBody ("oneshot").
Bodies == {"none", "replay", "oneshot"}

\* A RoundTrip call: pc is "idle", then "head" (the head of the attempt
\* loop), "wait" (the backoff select), "done"; attempt and lastErr are its
\* locals; gets counts the calls of req.GetBody; tries lists the calls of
\* base.RoundTrip, each with the request sent ("orig" the caller's, "clone"
\* one from req.Clone), its body ("orig" the caller's, "fresh" one from
\* GetBody, "none"), the call of GetBody the body came from (0 when from
\* none) and the error answered (NoErr with a response); delays lists the
\* waits that ran to their end; resp and err are what RoundTrip returned.
NewRoundTrip == [pc |-> "idle", body |-> "none", ctx |-> "live", attempt |-> 0,
                 lastErr |-> NoErr, gets |-> 0, tries |-> <<>>, delays |-> <<>>,
                 resp |-> FALSE, err |-> NoErr]

TransportInit == rt = [r \in RoundTrips |-> NewRoundTrip]

\* The RoundTrip calls are alike, so they are numbered in the order in
\* which they begin.
FirstIdleRoundTrip(r) == \A q \in RoundTrips : q < r => rt[q].pc # "idle"


\* Mutant of RTAttempts: one attempt too many.
RTAttemptsOneMore == tcfg.maxRetries + 2

\* Mutant of RTAttempts: a maxRetries that is zero or negative counts as
\* defaultRetryAttempts.
RTAttemptsNormalized ==
    (IF tcfg.maxRetries <= 0 THEN defaultRetryAttempts ELSE tcfg.maxRetries) + 1

\* attempts := t.maxRetries + 1
RTAttempts == tcfg.maxRetries + 1


\* Mutant of RTDelay: the same wait after every attempt.
RTDelayFlat(attempt) == tcfg.backoff

\* delay := t.backoff * time.Duration(attempt)
RTDelay(attempt) == tcfg.backoff * attempt


\* `if !netutil.ShouldRetry(err) || attempt == attempts { break }`
RTGivesUp(err, attempt) == ~ShouldRetry(err) \/ attempt = RTAttempts


\* Mutant of RTReturn: the error is dropped on the way out.
RTReturnNoError(f, r, resp, err) ==
    [f EXCEPT ![r].pc = "done", ![r].resp = resp, ![r].err = NoErr]

\* return: the call is over with a response or with an error.
RTReturn(f, r, resp, err) ==
    [f EXCEPT ![r].pc = "done", ![r].resp = resp, ![r].err = err]

\* `attempt++` and the test of the loop: the next attempt, or past the
\* loop `return nil, lastErr`.
RTContinue(f, r) ==
    IF f[r].attempt + 1 <= RTAttempts
      THEN [f EXCEPT ![r].pc = "head", ![r].attempt = @ + 1]
      ELSE RTReturn(f, r, FALSE, f[r].lastErr)

\* RoundTrip is called: `attempt := 1` and the test of the loop.
RTBegin(r) ==
    /\ rt[r].pc = "idle"
    /\ FirstIdleRoundTrip(r)
    /\ \E b \in Bodies : rt' = RTContinue([rt EXCEPT ![r].body = b], r)
    /\ UNCHANGED besideTransport

\* A retry of a request with a GetBody: `body, err := req.GetBody()` fails
\* and RoundTrip returns that error.
RTGetBodyFails(r) ==
    /\ rt[r].pc = "head"
    /\ rt[r].attempt > 1
    /\ rt[r].body = "replay"
    /\ rt' = RTReturn([rt EXCEPT ![r].gets = @ + 1], r, FALSE, ErrGetBody)
    /\ UNCHANGED besideTransport

\* A retry of a request with a body and no GetBody: `return nil, lastErr`.
RTNoReplay(r) ==
    /\ rt[r].pc = "head"
    /\ rt[r].attempt > 1
    /\ rt[r].body = "oneshot"
    /\ rt' = RTReturn(rt, r, FALSE, rt[r].lastErr)
    /\ UNCHANGED besideTransport

\* Mutant of SentBody: the clone keeps the body of the caller's request.
SentBodyOfCaller(r) == IF rt[r].body = "none" THEN "none" ELSE "orig"

\* The body of the request of this attempt: the caller's at the first
\* attempt, one from GetBody at a retry.
SentBody(r) ==
    IF rt[r].body = "none" THEN "none"
    ELSE IF rt[r].attempt > 1 THEN "fresh"
    ELSE "orig"

\* `resp, err := base.RoundTrip(currReq)` and what follows it, to the
\* return, to the backoff select or, the delay not being positive, to the
\* next attempt.
RTExchange(r) ==
    /\ rt[r].pc = "head"
    /\ rt[r].attempt <= RTAttempts
    /\ rt[r].attempt > 1 => rt[r].body # "oneshot"
    /\ \E err \in BaseErrors \cup {NoErr} :
        LET a == rt[r].attempt
            got == IF SentBody(r) = "fresh" THEN rt[r].gets + 1 ELSE rt[r].gets
            sent == [rt EXCEPT
                       ![r].gets = got,
                       ![r].tries =
                          Append(@, [req |-> IF a > 1 THEN "clone" ELSE "orig",
                                     body |-> SentBody(r),
                                     gen |-> IF SentBody(r) = "fresh"
                                               THEN got ELSE 0,
                                     res |-> err])]
            failed == [sent EXCEPT ![r].lastErr = err]
        IN IF err = NoErr
             THEN rt' = RTReturn(sent, r, TRUE, NoErr)
           ELSE IF RTGivesUp(err, a)
             THEN rt' = RTReturn(failed, r, FALSE, err)
           ELSE IF RTDelay(a) <= 0
             THEN rt' = RTContinue(failed, r)
           ELSE rt' = [failed EXCEPT ![r].pc = "wait"]
    /\ UNCHANGED besideTransport

\* The backoff select, `case <-req.Context().Done():`
\* `return nil, req.Context().Err()`.  RoundTrip reads the request's
\* context nowhere else, and a context that has ended but lost the select
\* to the timer is to RoundTrip a live one; so the end of the context is
\* taken with the step that sees it.
RTWaitDone(r) ==
    /\ rt[r].pc = "wait"
    /\ rt' = RTReturn([rt EXCEPT ![r].ctx = "done"], r, FALSE, ErrContext)
    /\ UNCHANGED besideTransport

\* The backoff select, `case <-timer.C:`: the delay has passed.
RTWaitTimer(r) ==
    /\ rt[r].pc = "wait"
    /\ rt' = RTContinue([rt EXCEPT ![r].delays = Append(@, RTDelay(rt[r].attempt))], r)
    /\ UNCHANGED besideTransport

TransportNext ==
    \/ \E r \in RoundTrips : RTBegin(r)
    \/ \E r \in RoundTrips : RTGetBodyFails(r)
    \/ \E r \in RoundTrips : RTNoReplay(r)
    \/ \E r \in RoundTrips : RTExchange(r)
    \/ \E r \in RoundTrips : RTWaitDone(r)
    \/ \E r \in RoundTrips : RTWaitTimer(r)

(* ---------------------------- error kinds ------------------------------ *)
\* sender.classifyError and httpStatusFromError, next to the retry test of
\* handleJob, applied to the errors a run can return.

\* httpStatusFromError: the Code of a *tele.Error, 429 for a
\* tele.FloodError, 400 for a tele.GroupError, else the number in the
\* last parentheses of err.Error(); a wrapping error ends its message
\* with the message of the error it wraps.
StatusOf(e) ==
    IF e = <<>> THEN 0
    ELSE IF As(e, {"api"}) # <<>> THEN As(e, {"api"})[1].code
    ELSE IF As(e, {"flood"}) # <<>> THEN 429
    ELSE IF As(e, {"group"}) # <<>> THEN 400
    ELSE e[Len(e)].code

\* `kind != "" && kind != "unknown"`
Known(kind) == kind \notin {"", "unknown"}

\* sender.classifyError.
RECURSIVE classifyError(_)
classifyError(e) ==
    LET dnsErr == As(e, {"DNSError"})
        netErr == As(e, NetTypes)
        opErr == As(e, {"OpError"})
        urlErr == As(e, {"urlError"})
        status == StatusOf(e)
    IN IF e = NoErr THEN ""
       ELSE IF As(e, {"deadline"}) # <<>> THEN "timeout"
       ELSE IF dnsErr # <<>> THEN (IF dnsErr[1].timeout THEN "timeout" ELSE "dns")
       ELSE IF netErr # <<>> /\ Timeout(netErr) THEN "timeout"
       ELSE IF opErr # <<>> /\ Timeout(opErr) THEN "timeout"
       ELSE IF opErr # <<>> /\ opErr[1].op = "dial" THEN "dial"
       ELSE IF /\ opErr # <<>> /\ opErr[1].op \in {"read", "write"}
               /\ Known(classifyError(Tail(opErr))) THEN classifyError(Tail(opErr))
       ELSE IF urlErr # <<>> /\ Timeout(urlErr) THEN "timeout"
       ELSE IF /\ urlErr # <<>> /\ Tail(urlErr) # <<>>
               /\ Known(classifyError(Tail(urlErr))) THEN classifyError(Tail(urlErr))
       ELSE IF As(e, {"alert"}) # <<>> THEN "tls"
       ELSE IF status >= 500 THEN "http_5xx"
       ELSE IF status >= 400 THEN "http_4xx"
       ELSE "unknown"

\* Errors that do not wrap: of the network (a *net.DNSError not found,
\* timed out, temporary; ECONNREFUSED and ETIMEDOUT; the i/o timeout of the
\* poller; a tls.AlertError), of the context, of the API (a *tele.Error
\* with a 4xx or a 5xx code, a tele.FloodError, an error whose message ends
\* in "(502)"), and one that says nothing.
NetLeaves ==
    {Leaf("DNSError", FALSE, FALSE), Leaf("DNSError", TRUE, TRUE),
     Leaf("DNSError", FALSE, TRUE), ErrRefused, Leaf("errno", TRUE, TRUE),
     Leaf("poll", TRUE, TRUE), Leaf("alert", FALSE, FALSE)}

CtxLeaves == {Leaf("canceled", FALSE, FALSE), Leaf("deadline", TRUE, TRUE)}

APILeaves ==
    {ErrAPI, <<Layer("api", "", FALSE, FALSE, 500)>>,
     <<Layer("flood", "", FALSE, FALSE, 0)>>,
     <<Layer("errorString", "", FALSE, FALSE, 502)>>}

\* A *net.OpError around an error of the network.
OpErrors ==
    {OpError(o, x) : o \in {"dial", "read", "write"}, x \in NetLeaves}
        \cup {OpError("remote error", Leaf("alert", FALSE, FALSE))}

\* What http.Client.Do returns: a *url.Error around the transport's error.
UrlErrors ==
    {UrlError(x) : x \in NetLeaves \cup CtxLeaves \cup OpErrors
                         \cup {Leaf("errorString", FALSE, FALSE)}}

\* The errors under classification.
ErrDomain ==
    NetLeaves \cup CtxLeaves \cup APILeaves \cup OpErrors \cup UrlErrors
        \cup {Leaf("errorString", FALSE, FALSE)}

\* No error under classification.
NoProbe == [pc |-> "off", err |-> NoErr, attempt |-> 0, kind |-> "",
            retried |-> FALSE]

\* A run has returned an error of the domain.
KindsInit ==
    probe \in {[NoProbe EXCEPT !.pc = "in", !.err = e] : e \in ErrDomain}

\* The error is that of attempt a: handleJob tests whether to give up, and
\* logSendFailure would report its kind.
Classify ==
    /\ probe.pc = "in"
    /\ \E a \in 1..Attempts :
         probe' = [probe EXCEPT !.pc = "out", !.attempt = a,
                                !.kind = classifyError(probe.err),
                                !.retried = ~GivesUp(probe.err, a)]
    /\ UNCHANGED besideKinds

(* ---------------------------- NewDispatcher ---------------------------- *)
\* sender.NewDispatcher on the options of a caller; durations in seconds.

\* The largest value a caller gives a field of Options; the least is -1.
MaxOpt == 2
OptValues == (-1)..MaxOpt

\* The defaults NewDispatcher writes.
DefaultQueueSize == 256
DefaultWorkers == 4
DefaultBackoff == 2
DefaultMaxDuration == 12

Options ==
    [QueueSize : OptValues, Workers : OptValues, MaxRetries : OptValues,
     RetryBackoff : OptValues, MaxDuration : OptValues]


\* Mutant of OrDefault: a zero is kept.
OrDefaultBelowZero(v, d) == IF v < 0 THEN d ELSE v

\* `if opts.X <= 0 { opts.X = d }`
OrDefault(v, d) == IF v <= 0 THEN d ELSE v

\* `if opts.MaxRetries < 0 { opts.MaxRetries = 0 }`
NotBelowZero(v) == IF v < 0 THEN 0 ELSE v

\* The options NewDispatcher keeps in d.opts.
Normalize(o) ==
    [QueueSize |-> OrDefault(o.QueueSize, DefaultQueueSize),
     Workers |-> OrDefault(o.Workers, DefaultWorkers),
     MaxRetries |-> NotBelowZero(o.MaxRetries),
     RetryBackoff |-> OrDefault(o.RetryBackoff, DefaultBackoff),
     MaxDuration |-> OrDefault(o.MaxDuration, DefaultMaxDuration)]

\* No NewDispatcher call.
ZeroOptions == [QueueSize |-> 0, Workers |-> 0, MaxRetries |-> 0,
                RetryBackoff |-> 0, MaxDuration |-> 0]

NoCtor == [pc |-> "off", given |-> ZeroOptions, kept |-> ZeroOptions,
           cap |-> 0, started |-> 0, wg |-> 0]

\* A caller is about to call NewDispatcher with some options.
CtorInit == ctor \in {[NoCtor EXCEPT !.pc = "in", !.given = o] : o \in Options}

\* NewDispatcher: the options are normalized and kept, d.jobs is made with
\* the capacity opts.QueueSize, opts.Workers goroutines are counted in
\* d.wg and started, and the dispatcher is returned.
NewDispatcher ==
    /\ ctor.pc = "in"
    /\ LET kept == Normalize(ctor.given)
       IN ctor' = [ctor EXCEPT !.pc = "out", !.kept = kept,
                               !.cap = kept.QueueSize,
                               !.wg = kept.Workers,
                               !.started = kept.Workers]
    /\ UNCHANGED besideCtor

(* ----------------------------- job deadline ---------------------------- *)
\* handleJob's `deadlineCtx, cancel := context.WithTimeout(ctx,
\* d.opts.MaxDuration)` on the clock: one job, the deadline of the context
\* given to Enqueue, the instants at which Enqueue accepts the job and
\* at which a worker calls handleJob for it, and the deadlineCtx.Err()
\* that handleJob reads then.

\* d.opts.MaxDuration, and the last instant of the clock.
MaxDuration == 2
MaxTime == 4

\* ctx.Deadline(): none, as of context.Background(), or an instant.
NoDeadline == [ok |-> FALSE, at |-> 0]
Deadlines == {NoDeadline} \cup {[ok |-> TRUE, at |-> t] : t \in 1..MaxTime}

\* context.WithDeadline(parent, t): the parent's deadline when it is the
\* earlier, else t.
WithDeadline(parent, t) ==
    IF parent.ok /\ parent.at < t THEN parent ELSE [ok |-> TRUE, at |-> t]


\* Mutant of TimeNow: the instant at which Enqueue took the job.
TimeOfEnqueue(d) == d.enq

\* time.Now() in a step of the job.
TimeNow(d) == d.now

\* context.WithTimeout(parent, timeout) called for the job.
WithTimeout(d, timeout) == WithDeadline(d.parent, TimeNow(d) + timeout)

\* The job: pc is "idle", "queued" once Enqueue has taken it, "handled"
\* once handleJob has made deadlineCtx; now is the clock; parent is the
\* deadline of the context given to Enqueue; enq and start are the
\* instants of the Enqueue and of the handleJob; deadline is that of
\* deadlineCtx; read and err are the instant and the result of the last
\* deadlineCtx.Err().
NoJobDeadline == [pc |-> "idle", now |-> 0, parent |-> NoDeadline, enq |-> 0,
                  start |-> 0, deadline |-> NoDeadline, read |-> 0,
                  err |-> NoErr]

\* The clock moves on.
DlTick ==
    /\ dl.now < MaxTime
    /\ dl' = [dl EXCEPT !.now = @ + 1]
    /\ UNCHANGED besideDeadline

\* Enqueue accepts the job with a context of some deadline.
DlEnqueue ==
    /\ dl.pc = "idle"
    /\ \E p \in Deadlines :
         dl' = [dl EXCEPT !.pc = "queued", !.parent = p, !.enq = dl.now]
    /\ UNCHANGED besideDeadline

\* A worker has received the job: handleJob makes deadlineCtx.
DlHandle ==
    /\ dl.pc = "queued"
    /\ dl' = [dl EXCEPT !.pc = "handled", !.start = dl.now,
                        !.deadline = WithTimeout(dl, MaxDuration)]
    /\ UNCHANGED besideDeadline

\* deadlineCtx.Err(): context.DeadlineExceeded from the deadline on.
DlErr ==
    /\ dl.pc = "handled"
    /\ dl' = [dl EXCEPT !.read = dl.now,
                        !.err = IF dl.now >= dl.deadline.at THEN ErrContext
                                ELSE NoErr]
    /\ UNCHANGED besideDeadline

DeadlineNext == DlTick \/ DlEnqueue \/ DlHandle \/ DlErr

(* ------------------------------ rate limit ----------------------------- *)
\* core/telegram/middleware/rate_limit.go: the handler that
\* RateLimitMiddleware returns, called concurrently for the updates of some
\* users, on a clock.

\* Handler calls, users, opts.Interval, and the last instant of the clock.
NHandlers == 2
NUsers == 2
Interval == 2
RlMaxTime == 3
Handlers == 1..NHandlers
Users == 1..NUsers

\* c.Sender() is nil.
NoUser == 0

\* The kinds of update, and opts.Exclude.
Kinds == {"message", "callback"}
Exclude == {"callback"}

\* userLastSeen has no entry for the user.
NotSeen == -1

\* A handler call: pc is "idle", "lock" (at userLastSeenMu.Lock()),
\* "locked" (the mutex taken), "store" (past the test, before the store),
\* "done"; user and kind are those of its update; now is its time.Now();
\* next counts its calls of next, limited those of opts.OnLimited; ret is
\* what it returned.
NewHandler == [pc |-> "idle", user |-> NoUser, kind |-> "message", now |-> 0,
               next |-> 0, limited |-> 0, ret |-> ""]

RateLimitInit ==
    [clock |-> 0, lastSeen |-> [u \in Users |-> NotSeen], mu |-> 0,
     h |-> [i \in Handlers |-> NewHandler]]

\* The handler calls are alike, so they are numbered in the order in
\* which they begin.
FirstIdleHandler(i) == \A k \in Handlers : k < i => rl.h[k].pc # "idle"

\* The clock moves on.
RlTick ==
    /\ rl.clock < RlMaxTime
    /\ rl' = [rl EXCEPT !.clock = @ + 1]
    /\ UNCHANGED besideRateLimit

\* `return next(c)`: the handler of the chain is called and its result
\* (nil in the model) returned.
Forwarded(hd) == [hd EXCEPT !.pc = "done", !.next = @ + 1, !.ret = "next"]

\* The handler is called with an update; up to `now := time.Now()`.
\* Without a sender, or with a kind in opts.Exclude, the update goes to
\* next at once.
RlBegin(i) ==
    /\ rl.h[i].pc = "idle"
    /\ FirstIdleHandler(i)
    /\ \E u \in Users \cup {NoUser}, k \in Kinds :
         LET hd == [rl.h[i] EXCEPT !.user = u, !.kind = k]
         IN IF u = NoUser \/ Interval <= 0 \/ k \in Exclude
              THEN rl' = [rl EXCEPT !.h[i] = Forwarded(hd)]
              ELSE rl' = [rl EXCEPT !.h[i] = [hd EXCEPT !.pc = "lock",
                                                        !.now = rl.clock]]
    /\ UNCHANGED besideRateLimit


\* Mutant of MuFree: Lock never waits.
MuAlwaysFree == TRUE

\* userLastSeenMu is not held.
MuFree == rl.mu = 0

\* userLastSeenMu.Lock()
RlLock(i) ==
    /\ rl.h[i].pc = "lock"
    /\ MuFree
    /\ rl' = [rl EXCEPT !.mu = i, !.h[i].pc = "locked"]
    /\ UNCHANGED besideRateLimit

\* `last, ok := userLastSeen[user.ID]; ok && now.Sub(last) < opts.Interval`
TooSoon(last, now) == last # NotSeen /\ now - last < Interval

\* The test under the mutex.  Too soon: Unlock, the warning,
\* opts.OnLimited, `return nil`.
RlTest(i) ==
    /\ rl.h[i].pc = "locked"
    /\ IF TooSoon(rl.lastSeen[rl.h[i].user], rl.h[i].now)
         THEN rl' = [rl EXCEPT !.mu = 0,
                               !.h[i].pc = "done",
                               !.h[i].limited = @ + 1,
                               !.h[i].ret = "nil"]
         ELSE rl' = [rl EXCEPT !.h[i].pc = "store"]
    /\ UNCHANGED besideRateLimit

\* `userLastSeen[user.ID] = now`, Unlock, `return next(c)`.
RlStore(i) ==
    /\ rl.h[i].pc = "store"
    /\ rl' = [rl EXCEPT !.lastSeen[rl.h[i].user] = rl.h[i].now,
                        !.mu = 0,
                        !.h[i] = Forwarded(@)]
    /\ UNCHANGED besideRateLimit

RateLimitNext ==
    \/ RlTick
    \/ \E i \in Handlers : RlBegin(i)
    \/ \E i \in Handlers : RlLock(i)
    \/ \E i \in Handlers : RlTest(i)
    \/ \E i \in Handlers : RlStore(i)

(* ----------------------------- RunTelegram ----------------------------- *)
\* RunTelegram from tele.NewBot on, with the dispatcher it obtains and the
\* helpers' globalDispatcher that it sets and clears.  The bot's handlers
\* send through the helpers at any moment, teardown included.

\* The RunTelegram call: pc is "start", "obtained" (the dispatcher
\* obtained, the helpers' pointer set), "started" (bot.Start running),
\* "stopped" (runDone closed), "closing" (at or in dispatcher.Close()),
\* "returned"; use is useHelperDispatcher; ptr says that globalDispatcher
\* is set; path is the way taken; hook says that the OnStop hook has run;
\* closes counts the calls of dispatcher.Close(); ret is what RunTelegram
\* returned.
NoRunTelegram == [pc |-> "start", use |-> FALSE, ptr |-> FALSE, path |-> "",
                  hook |-> FALSE, stopErr |-> FALSE, closes |-> 0, ret |-> ""]

\* tele.NewBot fails: RunTelegram returns before it has a dispatcher.
RunNewBotFails ==
    /\ tg.pc = "start"
    /\ tg' = [tg EXCEPT !.pc = "returned", !.path = "newBot", !.ret = "err"]
    /\ UNCHANGED besideRunTelegram

\* The dispatcher is obtained and, unless opts.DisableHelperDispatcher,
\* installed with SetDispatcher.
RunObtain ==
    /\ tg.pc = "start"
    /\ \E use \in BOOLEAN :
         tg' = [tg EXCEPT !.pc = "obtained", !.use = use, !.ptr = use]
    /\ UNCHANGED besideRunTelegram

\* opts.OnStart fails: RunTelegram goes to dispatcher.Close().
RunOnStartFails ==
    /\ tg.pc = "obtained"
    /\ tg' = [tg EXCEPT !.pc = "closing", !.path = "onStart",
                        !.closes = @ + 1]
    /\ UNCHANGED besideRunTelegram

\* No OnStart hook, or it returns nil: `go func() { bot.Start(); ... }()`.
RunStart ==
    /\ tg.pc = "obtained"
    /\ tg' = [tg EXCEPT !.pc = "started"]
    /\ UNCHANGED besideRunTelegram

\* The select: ctx is done (bot.Stop(), <-runDone), or the bot has
\* stopped by itself.
RunStopped ==
    /\ tg.pc = "started"
    /\ \E p \in {"ctx", "bot"} : tg' = [tg EXCEPT !.pc = "stopped", !.path = p]
    /\ UNCHANGED besideRunTelegram

\* The OnStop hook, when there is one, then RunTelegram goes to
\* dispatcher.Close().
RunOnStop ==
    /\ tg.pc = "stopped"
    /\ \E hook \in BOOLEAN, err \in BOOLEAN :
         /\ err => hook
         /\ tg' = [tg EXCEPT !.pc = "closing", !.hook = hook,
                             !.stopErr = err, !.closes = @ + 1]
    /\ UNCHANGED besideRunTelegram

\* dispatcher.Close() has returned: SetDispatcher(nil) when the helpers'
\* pointer was set, and RunTelegram returns.
RunClear ==
    /\ tg.pc = "closing"
    /\ closer[tg.closes] = "returned"
    /\ tg' = [tg EXCEPT !.pc = "returned",
                        !.ptr = FALSE,
                        !.ret = IF tg.path = "onStart" \/ tg.stopErr THEN "err"
                                ELSE "nil"]
    /\ UNCHANGED besideRunTelegram

\* The Close call of RunTelegram: the call tg.closes of the dispatcher's.
RunClose(k) ==
    /\ tg.pc = "closing"
    /\ k = tg.closes
    /\ \/ CloseBegin(k)
       \/ CloseStop(k)
       \/ CloseJobs(k)
       \/ CloseWait(k)

\* sendAsync of the helpers: currentDispatcher() is nil and run is called
\* at once, or it is the dispatcher and Enqueue is called.
RunSendAsync(c) ==
    \/ ~tg.ptr /\ SendAsyncDirect(c)
    \/ tg.ptr /\ EnqueueBegin(c) /\ call'[c].run = "func"
    \/ EnqueueSend(c)

RunTelegramNext ==
    \/ RunNewBotFails
    \/ RunObtain
    \/ RunOnStartFails
    \/ RunStart
    \/ RunStopped
    \/ RunOnStop
    \/ RunClear
    \/ \E k \in Closers : RunClose(k)
    \/ \E c \in Calls : RunSendAsync(c)
    \/ WorkerRecv
    \/ WorkerExit
    \/ \E j \in Calls : AttemptDeadline(j)
    \/ \E j \in Calls : AttemptRun(j)
    \/ \E j \in Calls : BackoffDeadline(j)
    \/ \E j \in Calls : BackoffTimer(j)
    \/ \E j \in Calls : AfterLoop(j)
    \/ \E j \in Calls : CtxEnds(j)

(* --------------------------- specification ----------------------------- *)
Next ==
    \/ \E c \in Calls : SendAsyncDirect(c)
    \/ \E c \in Calls : EnqueueBegin(c)
    \/ \E c \in Calls : EnqueueSend(c)
    \/ \E k \in Closers : CloseBegin(k)
    \/ \E k \in Closers : CloseStop(k)
    \/ \E k \in Closers : CloseJobs(k)
    \/ \E k \in Closers : CloseWait(k)
    \/ WorkerRecv
    \/ WorkerExit
    \/ \E j \in Calls : AttemptDeadline(j)
    \/ \E j \in Calls : AttemptRun(j)
    \/ \E j \in Calls : BackoffDeadline(j)
    \/ \E j \in Calls : BackoffTimer(j)
    \/ \E j \in Calls : AfterLoop(j)
    \/ \E j \in Calls : CtxEnds(j)

\* The dispatcher, as NewDispatcher leaves it; nothing else is at work.
\* The options of the dispatcher under check.
BoundOptions == [Workers |-> Workers, QueueSize |-> QueueSize]

\* No record of the order of acceptance is kept; one is kept.
NoOrder == [kept |-> FALSE, jobs |-> <<>>]
KeptOrder == [kept |-> TRUE, jobs |-> <<>>]

Init ==
    /\ opts = BoundOptions
    /\ order = NoOrder
    /\ tcfg = BuiltConfig
    /\ tg = NoRunTelegram
    /\ rl = RateLimitInit
    /\ dl = NoJobDeadline
    /\ DispatcherInit /\ TransportInit /\ probe = NoProbe /\ ctor = NoCtor

Spec == Init /\ [][Next]_vars

\* The dispatcher under a fair scheduler: a worker that can take a step
\* takes one, run returns, a timer that is due fires, a Close call that
\* has begun and an Enqueue call that has reached its send go on.  That a
\* call of Enqueue or Close begins, and that a context ends, is up to the
\* callers.
Fairness ==
    /\ WF_vars(WorkerRecv)
    /\ WF_vars(WorkerExit)
    /\ \A j \in Calls :
          /\ WF_vars(AttemptDeadline(j))
          /\ WF_vars(AttemptRun(j))
          /\ WF_vars(BackoffDeadline(j))
          /\ WF_vars(BackoffTimer(j))
          /\ WF_vars(AfterLoop(j))
    /\ \A k \in Closers :
          /\ WF_vars(closer[k] # "idle" /\ CloseBegin(k))
          /\ WF_vars(CloseStop(k))
          /\ WF_vars(CloseJobs(k))
          /\ WF_vars(CloseWait(k))
    /\ \A c \in Calls : WF_vars(EnqueueSend(c))

FairSpec == Init /\ [][Next]_vars /\ Fairness

\* handleJob's retry test and logSendFailure's error kind, on one error.
InitKinds ==
    /\ opts = BoundOptions
    /\ order = NoOrder
    /\ tcfg = BuiltConfig
    /\ tg = NoRunTelegram
    /\ rl = RateLimitInit
    /\ dl = NoJobDeadline
    /\ DispatcherInit /\ TransportInit /\ KindsInit /\ ctor = NoCtor

SpecKinds == InitKinds /\ [][Classify]_vars

\* NewDispatcher on every choice of options.
InitCtor ==
    /\ opts = BoundOptions
    /\ order = NoOrder
    /\ tcfg = BuiltConfig
    /\ tg = NoRunTelegram
    /\ rl = RateLimitInit
    /\ dl = NoJobDeadline
    /\ DispatcherInit /\ TransportInit /\ probe = NoProbe /\ CtorInit

SpecCtor == InitCtor /\ [][NewDispatcher]_vars

\* The dispatcher with a pool of one worker on a queue of more than one
\* job, and with the pool and the queue of Spec.
OneWorkerOptions == [Workers |-> 1, QueueSize |-> QueueSize + 1]

InitPools ==
    /\ opts \in {BoundOptions, OneWorkerOptions}
    /\ order = NoOrder
    /\ tcfg = BuiltConfig
    /\ tg = NoRunTelegram
    /\ rl = RateLimitInit
    /\ dl = NoJobDeadline
    /\ DispatcherInit /\ TransportInit /\ probe = NoProbe /\ ctor = NoCtor

SpecPools == InitPools /\ [][Next]_vars

\* The same dispatchers while their owner has not called Close, with a
\* record kept of the order in which the jobs are accepted.
InitOrder ==
    /\ opts \in {BoundOptions, OneWorkerOptions}
    /\ order = KeptOrder
    /\ tcfg = BuiltConfig
    /\ tg = NoRunTelegram
    /\ rl = RateLimitInit
    /\ dl = NoJobDeadline
    /\ DispatcherInit /\ TransportInit /\ probe = NoProbe /\ ctor = NoCtor

NextOrder ==
    \/ \E c \in Calls : EnqueueBegin(c)
    \/ \E c \in Calls : EnqueueSend(c)
    \/ WorkerRecv
    \/ \E j \in Calls : AttemptDeadline(j)
    \/ \E j \in Calls : AttemptRun(j)
    \/ \E j \in Calls : BackoffDeadline(j)
    \/ \E j \in Calls : BackoffTimer(j)
    \/ \E j \in Calls : AfterLoop(j)
    \/ \E j \in Calls : CtxEnds(j)

SpecOrder == InitOrder /\ [][NextOrder]_vars

\* The retrying transport of BuildHTTPClient, under concurrent RoundTrip
\* calls.
SpecTransport == Init /\ [][TransportNext]_vars

\* The deadline of a job on the clock.
InitDeadline ==
    /\ opts = BoundOptions
    /\ order = NoOrder
    /\ tcfg = BuiltConfig
    /\ tg = NoRunTelegram
    /\ rl = RateLimitInit
    /\ dl = NoJobDeadline
    /\ DispatcherInit /\ TransportInit /\ probe = NoProbe /\ ctor = NoCtor

SpecDeadline == InitDeadline /\ [][DeadlineNext]_vars

\* The rate limit middleware under concurrent handler calls.
InitRateLimit ==
    /\ opts = BoundOptions
    /\ order = NoOrder
    /\ tcfg = BuiltConfig
    /\ tg = NoRunTelegram
    /\ dl = NoJobDeadline
    /\ rl = RateLimitInit
    /\ DispatcherInit /\ TransportInit /\ probe = NoProbe /\ ctor = NoCtor

SpecRateLimit == InitRateLimit /\ [][RateLimitNext]_vars

\* RunTelegram with its dispatcher and the helpers' sends.
InitRunTelegram ==
    /\ opts = BoundOptions
    /\ order = NoOrder
    /\ tcfg = BuiltConfig
    /\ dl = NoJobDeadline
    /\ rl = RateLimitInit
    /\ tg = NoRunTelegram
    /\ DispatcherInit /\ TransportInit /\ probe = NoProbe /\ ctor = NoCtor

SpecRunTelegram == InitRunTelegram /\ [][RunTelegramNext]_vars

\* RoundTrip on a retryTransport of any fields: each of maxRetries and
\* backoff negative, zero, or as BuildHTTPClient sets it.
Configs ==
    [maxRetries : {-1, 0, defaultRetryAttempts},
     backoff : {-1, 0, defaultRetryBackoff}]

InitConfig ==
    /\ opts = BoundOptions
    /\ order = NoOrder
    /\ tcfg \in Configs
    /\ tg = NoRunTelegram
    /\ rl = RateLimitInit
    /\ dl = NoJobDeadline
    /\ DispatcherInit /\ TransportInit /\ probe = NoProbe /\ ctor = NoCtor

SpecConfig == InitConfig /\ [][TransportNext]_vars

(* ------------------------------- claims -------------------------------- *)
\* handleJob has returned for job j.
Terminal(j) == job[j].state \in {"succeeded", "failed", "deadline", "ended"}

\* The last call of j.run returned nil.
LastRunOk(j) ==
    /\ job[j].results # <<>>
    /\ job[j].results[Len(job[j].results)] = NoErr

\* The terminal records of job j: those of logSendSuccess and logSendFailure.
Outcomes(j) ==
    SelectSeq(job[j].log, LAMBDA r : r.event \in {"send.success", "send.fail"})

\* Enqueue returned nil for call c: the job was accepted.
Accepted(c) == call[c].res = "nil"

CloseReturned == \E k \in Closers : closer[k] = "returned"

\* C1: the queue never holds more than QueueSize jobs; an Enqueue that has
\* reached its send never waits; on the open channel it returns
\* ErrQueueFull and queues nothing when the queue holds QueueSize jobs, and
\* accepts the job otherwise.
C1_QueueBounded ==
    /\ [](Len(jobs) <= QueueSize)
    /\ [](\A c \in Calls : call[c].pc = "send" => ENABLED EnqueueSend(c))
    /\ [][\A c \in Calls :
            (call[c].pc = "send" /\ call'[c].pc = "done" /\ ~jobsClosed) =>
              IF Len(jobs) = QueueSize
                THEN /\ call'[c].res = "ErrQueueFull"
                     /\ jobs' = jobs
                     /\ job'[c] = job[c]
                ELSE /\ call'[c].res = "nil"
                     /\ jobs' = Append(jobs, c)]_vars

\* C1 witness: one call accepted and its job still queued, the queue full,
\* another call answered ErrQueueFull.
C1_Witness ==
    \E a, b \in Calls :
        /\ Accepted(a) /\ job[a].state = "queued"
        /\ Len(jobs) = QueueSize
        /\ call[b].res = "ErrQueueFull" /\ job[b].state = "none"

\* C2 (as claimed): no Enqueue call faults, whatever Close does meanwhile.
C2_CloseSafe == \A c \in Calls : call[c].res # "panic"

\* C3: once a Close call has returned, every accepted job has been taken
\* from the queue and its handling has ended in an outcome.
C3_NoJobDropped ==
    CloseReturned =>
        /\ jobs = <<>>
        /\ \A c \in Calls :
             Accepted(c) => /\ job[c].state \in {"succeeded", "failed", "deadline"}
                            /\ Len(Outcomes(c)) = 1

\* C3 witness: Close has returned and every call was accepted and handled.
C3_Witness ==
    /\ CloseReturned
    /\ \A c \in Calls : Accepted(c) /\ Terminal(c)

\* C4 (as claimed): every Enqueue call that begins once d.stop is closed
\* returns ErrQueueClosed.
C4_ClosedRejectsAll ==
    \A c \in Calls :
        (call[c].pc = "done" /\ call[c].stopAtCall) => call[c].res = "ErrQueueClosed"

\* C4 (amended): every Enqueue call with a non-nil run that begins once
\* d.stop is closed returns ErrQueueClosed, and no call that begins then,
\* nil run or not, has its job queued or run.
C4_ClosedRejects ==
    \A c \in Calls :
        (call[c].pc # "idle" /\ call[c].stopAtCall) =>
            /\ call[c].pc = "done"
            /\ call[c].run = "func" => call[c].res = "ErrQueueClosed"
            /\ job[c] = NewJob
            /\ \A i \in 1..Len(jobs) : jobs[i] # c

\* C4 witness: a call with a non-nil run made after Close returned, while
\* another job had been accepted before.
C4_Witness ==
    \E c \in Calls :
        /\ call[c].stopAtCall /\ call[c].run = "func"
        /\ call[c].res = "ErrQueueClosed"
        /\ CloseReturned

\* C5: no Close call faults on a channel closed before; a Close call that
\* has returned finds both channels closed and every worker gone; and a
\* step of a Close call taken once the first has finished changes nothing
\* of the dispatcher.
C5_CloseIdempotent ==
    /\ [](\A k \in Closers : closer[k] # "panic")
    /\ [](\A k \in Closers : closer[k] = "returned" =>
             stop /\ jobsClosed /\ wg = 0 /\ waiting = 0
             /\ \A j \in Calls : ~Handled(j))
    /\ [][(onceDone /\ closer' # closer) =>
             UNCHANGED <<jobs, jobsClosed, stop, onceDone, onceM, wg, errs,
                         waiting, job>>]_vars

\* C5 witness: two Close calls have returned, one of them having waited
\* for the mutex of the Once.
C5_Witness ==
    \E a, b \in Closers : a # b /\ closer[a] = "returned" /\ closer[b] = "returned"

\* C6: ErrorCount never decreases; it counts exactly the jobs whose
\* handling has ended without a successful run, so it rises by one when
\* such a job ends and stays when a job succeeds, when an Enqueue is
\* rejected and when Close runs.
C6_ErrorCount ==
    /\ [](errs = Cardinality({j \in Calls : Terminal(j) /\ ~LastRunOk(j)}))
    /\ [][/\ errs' >= errs
          /\ errs' # errs =>
               /\ errs' = errs + 1
               /\ call' = call /\ closer' = closer
               /\ \E j \in Calls : /\ ~Terminal(j)
                                   /\ job'[j].state \in {"failed", "deadline"}
                                   /\ job'[j].lastErr # NoErr]_vars

\* C6 witness: one job failed on its run's error, one ended on its context,
\* and ErrorCount is 2.
C6_Witness ==
    /\ errs = 2
    /\ \E a, b \in Calls : job[a].state = "failed" /\ job[b].state = "deadline"

\* C7: once a Close call has returned, the accepted jobs are the succeeded
\* ones plus ErrorCount, and ErrorCount changes no more.
C7_ErrorCountFinal ==
    /\ [](CloseReturned =>
            Cardinality({c \in Calls : Accepted(c)}) =
              Cardinality({j \in Calls : job[j].state = "succeeded"}) + errs)
    /\ [][CloseReturned => errs' = errs]_vars

\* C7 witness: Close has returned with one job succeeded and one counted.
C7_Witness ==
    /\ CloseReturned
    /\ errs = 1
    /\ \E j \in Calls : job[j].state = "succeeded"

\* C8: an Enqueue call with a nil run returns the nil-run error, which is
\* neither ErrQueueClosed nor ErrQueueFull (nor nil), whatever the state of
\* the dispatcher, and changes nothing but the call itself.
C8_NilRun ==
    /\ [](\A c \in Calls : call[c].run = "nil" =>
            /\ call[c].pc = "done"
            /\ call[c].res = "ErrNilRun"
            /\ job[c] = NewJob)
    /\ [][\A c \in Calls : (call[c].pc = "idle" /\ call'[c].run = "nil") =>
            UNCHANGED <<jobs, jobsClosed, stop, onceDone, onceM, wg, errs,
                        closer, waiting, ctxErr, job>>]_vars

\* C8 witness: a nil run rejected while another job is queued and the
\* dispatcher is open.
C8_Witness ==
    \E c \in Calls :
        /\ call[c].run = "nil" /\ call[c].res = "ErrNilRun"
        /\ ~stop /\ jobs # <<>>

\* The first n backoff waits: RetryBackoff * i after the i-th failed attempt.
LinearDelays(n) == [i \in 1..n |-> RetryBackoff * i]

C10_GiveUp ==
    /\ [](\A j \in Calls :
            /\ job[j].runs <= MaxRetries + 1
            /\ job[j].runs = Len(job[j].results)
            /\ (job[j].results # <<>> /\ ~LastRunOk(j)) =>
                 LET n == Len(job[j].results)
                     e == job[j].results[n] IN
                 (~ShouldRetry(e) \/ n = MaxRetries + 1) =>
                     /\ job[j].state \in {"after", "failed"}
                     /\ job[j].lastErr = e
                     /\ Outcomes(j) = <<[event |-> "send.fail",
                                        attempt |-> MaxRetries + 1, err |-> e]>>
                     /\ \A i \in 1..(n - 1) : ShouldRetry(job[j].results[i]))
    /\ [][\A j \in Calls :
            (job[j].state = "after" /\ job[j].results # <<>>
               /\ job[j].lastErr = job[j].results[Len(job[j].results)]) =>
                /\ job'[j].runs = job[j].runs
                /\ job'[j].state # "after" =>
                     /\ job'[j].state = "failed"
                     /\ errs' = errs + 1
                     /\ job'[j].log = job[j].log]_vars

\* C10 witness: one job failed on a first, non-retryable error, another
\* failed with its attempts used up.
C10_Witness ==
    \E a, b \in Calls :
        /\ job[a].state = "failed" /\ job[a].runs = 1
        /\ ~ShouldRetry(job[a].lastErr)
        /\ job[b].state = "failed" /\ job[b].runs = MaxRetries + 1
        /\ ShouldRetry(job[b].lastErr)

\* C11: a job whose context ends while its worker waits in a backoff can
\* leave the wait at once; from then on its run is not called again; the
\* select's Done case records the failure with the context's error and
\* leaves the interrupted wait unfinished; and the job ends on its
\* deadline with one failure record carrying that error and with
\* ErrorCount raised by one.
C11_BackoffCancel ==
    /\ [](\A j \in Calls :
            (job[j].state = "backoff" /\ ctxErr[j] = "done") =>
                ENABLED BackoffDeadline(j))
    /\ [][\A j \in Calls :
            /\ ctxErr[j] = "done" => job'[j].runs = job[j].runs
            /\ (job[j].state = "backoff" /\ job'[j].state = "after") =>
                 /\ ctxErr[j] = "done"
                 /\ job'[j].lastErr = ErrContext
                 /\ job'[j].delays = job[j].delays
                 /\ Outcomes(j)' = <<FailureRecord(ErrContext, Attempts)>>
            /\ (job[j].state = "after" /\ job[j].lastErr = ErrContext
                  /\ job'[j].state # "after") =>
                 /\ job'[j].state = "deadline"
                 /\ errs' = errs + 1
                 /\ Outcomes(j)' = <<FailureRecord(ErrContext, Attempts)>>]_vars

\* C11 witness: a job whose first run failed with a retryable error and
\* whose context ended in the first backoff: run once, no wait completed,
\* ended on its deadline and counted.
C11_Witness ==
    \E j \in Calls :
        /\ job[j].state = "deadline"
        /\ job[j].runs = 1 /\ ShouldRetry(job[j].results[1])
        /\ job[j].delays = <<>>
        /\ job[j].failureLogged
        /\ errs >= 1

\* A step of the life of job j, in the states of the claim: Queued is
\* "queued", Running(attempt = n) is "attempt", "backoff" or "after" with
\* attempt = n, and Succeeded, Failed, DeadlineExceeded are "succeeded",
\* "failed", "deadline".
JobStep(j) ==
    LET a == job[j]
        b == job'[j]
        RunsBy(n) == b.runs = a.runs + n /\ Len(b.results) = Len(a.results) + n
    IN \/ b = a
       \/ a.state = "none" /\ b.state = "queued" /\ b.attempt = 0 /\ RunsBy(0)
       \/ a.state = "queued" /\ b.state = "attempt" /\ b.attempt = 1 /\ RunsBy(0)
       \/ a.state = "attempt" /\ b.state \in {"succeeded", "backoff"}
            /\ b.attempt = a.attempt /\ RunsBy(1)
       \/ a.state = "attempt" /\ b.state = "after"
            /\ b.attempt = a.attempt /\ (RunsBy(0) \/ RunsBy(1))
       \/ a.state = "backoff" /\ b.state = "attempt"
            /\ b.attempt = a.attempt + 1 /\ RunsBy(0)
       \/ a.state = "backoff" /\ b.state = "after"
            /\ b.attempt = a.attempt /\ RunsBy(0)
       \/ a.state = "after" /\ b.state \in {"failed", "deadline"}
            /\ b.attempt = a.attempt /\ RunsBy(0)

\* What holds of the attempt number and of the place of every job.
JobShape(j) ==
    /\ job[j].state # "ended"
    /\ job[j].attempt <= MaxRetries + 1
    /\ Handled(j) \/ Terminal(j) => job[j].attempt >= 1
    /\ job[j].state = "succeeded" => LastRunOk(j)

\* C12 (as claimed): every job follows only the transitions Queued ->
\* Running(1) -> ... -> Running(n <= MaxRetries+1) -> Succeeded, Failed or
\* DeadlineExceeded, the attempt rising by one; it is in a terminal state
\* only with run called at least once; and once there it is never run or
\* reported again.
C12_TerminalAfterRun ==
    /\ [](\A j \in Calls : JobShape(j) /\ (Terminal(j) => job[j].runs >= 1))
    /\ [][\A j \in Calls : JobStep(j) /\ (Terminal(j) => job'[j] = job[j])]_vars

\* C12 (amended): the same transitions; a job is Succeeded or Failed only
\* with run called at least once, while DeadlineExceeded is also entered
\* from Running(1) with run never called, when the context has ended
\* before the first attempt; once in a terminal state the job is never
\* run or reported again.
C12_JobLife ==
    /\ [](\A j \in Calls :
            /\ JobShape(j)
            /\ job[j].state \in {"succeeded", "failed"} => job[j].runs >= 1
            /\ (job[j].state = "deadline" /\ job[j].runs = 0) =>
                 /\ job[j].attempt = 1
                 /\ job[j].lastErr = ErrContext
                 /\ ctxErr[j] = "done")
    /\ [][\A j \in Calls : JobStep(j) /\ (Terminal(j) => job'[j] = job[j])]_vars

\* C12 witness: one job succeeded at attempt MaxRetries+1, another ended
\* on its deadline without a call of run.
C12_Witness ==
    \E a, b \in Calls :
        /\ job[a].state = "succeeded" /\ job[a].attempt = MaxRetries + 1
        /\ job[a].attempt > 1
        /\ job[b].state = "deadline" /\ job[b].runs = 0

LastTry(r) == rt[r].tries[Len(rt[r].tries)].res

\* C14 (as claimed): a RoundTrip call on a request with a body and no
\* GetBody, whose first exchange failed, has called base.RoundTrip once
\* and returns the error of that exchange, whatever the error was and
\* whatever became of the request's context.
C14_OneShotBody ==
    \A r \in RoundTrips :
        (/\ rt[r].pc = "done" /\ rt[r].body = "oneshot"
         /\ rt[r].tries # <<>> /\ rt[r].tries[1].res # NoErr) =>
            /\ Len(rt[r].tries) = 1
            /\ ~rt[r].resp
            /\ rt[r].err = rt[r].tries[1].res

\* C15: a RoundTrip call makes at most maxRetries+1 calls of
\* base.RoundTrip and, once returned, at least one; every call but the
\* last answered a retryable error, so the first response ends the call
\* and is returned, and a first error that is not retryable leaves one
\* call; the attempt number follows the calls made; and a step of one
\* RoundTrip call leaves every other call as it was.
C15_AttemptCount ==
    /\ [](\A r \in RoundTrips :
            LET n == Len(rt[r].tries) IN
            /\ n <= defaultRetryAttempts + 1
            /\ rt[r].pc = "done" => n >= 1
            /\ \A i \in 1..(n - 1) : ShouldRetry(rt[r].tries[i].res)
            /\ rt[r].resp <=> (rt[r].pc = "done" /\ LastTry(r) = NoErr)
            /\ rt[r].pc = "head" => rt[r].attempt = n + 1
            /\ rt[r].pc = "wait" => rt[r].attempt = n /\ n <= defaultRetryAttempts
            /\ (n >= 1 /\ rt[r].pc # "done") => ShouldRetry(LastTry(r)))
    /\ [][\A r, q \in RoundTrips :
            (r # q /\ rt'[r] # rt[r]) => rt'[q] = rt[q]]_vars

\* C15 witness: one call answered at its last attempt, maxRetries+1 calls
\* made, while another call ended on a first error that is not retryable.
C15_Witness ==
    \E a, b \in RoundTrips :
        /\ rt[a].resp /\ Len(rt[a].tries) = defaultRetryAttempts + 1
        /\ rt[b].pc = "done" /\ Len(rt[b].tries) = 1
        /\ ~ShouldRetry(rt[b].err) /\ rt[b].err # NoErr

\* C16: the i-th completed wait of a call is backoff*i; a waiting call
\* can leave the wait at any moment on the end of its context; a wait
\* that ends without running to its end has ended on the context, with
\* the context's error returned and no further call of base.RoundTrip;
\* and a call that has returned does nothing more.
C16_BackoffAbort ==
    /\ [](\A r \in RoundTrips :
            /\ rt[r].delays = [i \in 1..Len(rt[r].delays) |-> defaultRetryBackoff * i]
            /\ rt[r].pc = "wait" => ENABLED RTWaitDone(r)
            /\ rt[r].ctx = "done" => rt[r].pc = "done" /\ rt[r].err = ErrContext)
    /\ [][\A r \in RoundTrips :
            /\ (rt[r].pc = "wait" /\ rt'[r].pc # "wait"
                  /\ rt'[r].delays = rt[r].delays) =>
                 /\ rt'[r].ctx = "done"
                 /\ rt'[r].pc = "done" /\ ~rt'[r].resp
                 /\ rt'[r].err = ErrContext
                 /\ rt'[r].tries = rt[r].tries
            /\ rt[r].pc = "done" => rt'[r] = rt[r]]_vars

\* C16 witness: a call that waited backoff and 2*backoff and whose context
\* ended in its third wait.
C16_Witness ==
    \E r \in RoundTrips :
        /\ rt[r].pc = "done" /\ rt[r].err = ErrContext
        /\ Len(rt[r].tries) = 3
        /\ rt[r].delays = <<defaultRetryBackoff, 2 * defaultRetryBackoff>>

\* A call that returned the error of its last exchange, or the error of
\* the context that ended during a wait.
LastOrContext(r) ==
    \/ rt[r].err # NoErr /\ rt[r].err = LastTry(r)
    \/ /\ rt[r].err = ErrContext /\ rt[r].ctx = "done"
       /\ Len(rt[r].delays) < Len(rt[r].tries)

\* C17 (as claimed): a RoundTrip call that returned no response returned
\* the error of its last exchange or the error of its context, ended
\* during a wait; no other error, and never nothing.
C17_LastOrContextOnly ==
    \A r \in RoundTrips :
        (rt[r].pc = "done" /\ ~rt[r].resp) => LastOrContext(r)

\* C17 (amended): a RoundTrip call that returned no response returned the
\* error of its last exchange, or the error of its context, ended during a
\* wait, or, for a request with a GetBody, the error GetBody answered
\* before a retry; never nothing, and never an error next to a response.
C17_ReturnedError ==
    \A r \in RoundTrips :
        /\ rt[r].resp => rt[r].err = NoErr
        /\ (rt[r].pc = "done" /\ ~rt[r].resp) =>
             \/ LastOrContext(r)
             \/ /\ rt[r].err = ErrGetBody /\ rt[r].body = "replay"
                /\ rt[r].tries # <<>> /\ ShouldRetry(LastTry(r))
                /\ Len(rt[r].delays) = Len(rt[r].tries)

\* C17 witness: one call ended on the error of GetBody, another on the
\* error of its last exchange with its attempts used up.
C17_Witness ==
    \E a, b \in RoundTrips :
        /\ rt[a].pc = "done" /\ rt[a].err = ErrGetBody
        /\ rt[b].pc = "done" /\ Len(rt[b].tries) = defaultRetryAttempts + 1
        /\ rt[b].err = LastTry(b) /\ rt[b].err # NoErr

\* The error kinds of the taxonomy that are transient.
TransientKinds == {"timeout", "dial", "dns", "tls"}

C20_Normalized ==
    ctor.pc = "out" =>
        LET g == ctor.given
            k == ctor.kept
        IN /\ k.QueueSize = IF g.QueueSize <= 0 THEN 256 ELSE g.QueueSize
           /\ k.Workers = IF g.Workers <= 0 THEN 4 ELSE g.Workers
           /\ k.RetryBackoff = IF g.RetryBackoff <= 0 THEN 2 ELSE g.RetryBackoff
           /\ k.MaxDuration = IF g.MaxDuration <= 0 THEN 12 ELSE g.MaxDuration
           /\ k.MaxRetries = IF g.MaxRetries < 0 THEN 0 ELSE g.MaxRetries
           /\ k.QueueSize >= 1 /\ k.Workers >= 1 /\ k.MaxRetries >= 0
           /\ k.RetryBackoff > 0 /\ k.MaxDuration > 0
           /\ ctor.cap = k.QueueSize
           /\ ctor.started = k.Workers /\ ctor.wg = k.Workers

\* C20 witness: a zero QueueSize, a negative Workers, a negative
\* MaxRetries, a zero RetryBackoff and a positive MaxDuration.
C20_Witness ==
    /\ ctor.pc = "out"
    /\ ctor.given = [QueueSize |-> 0, Workers |-> -1, MaxRetries |-> -1,
                     RetryBackoff |-> 0, MaxDuration |-> 1]
    /\ ctor.kept = [QueueSize |-> 256, Workers |-> 4, MaxRetries |-> 0,
                    RetryBackoff |-> 2, MaxDuration |-> 1]
    /\ ctor.started = 4

\* C19 (as claimed): of every sendAsync call with a non-nil run that is
\* over, either the job was accepted by the dispatcher and sendAsync did
\* not call run, or the job was not accepted (no dispatcher, ErrQueueFull,
\* ErrQueueClosed) and sendAsync called run once; never both, never
\* neither.
C19_QueuedXorSync ==
    \A c \in Calls :
        (call[c].pc = "done" /\ call[c].run = "func") =>
            \/ Accepted(c) /\ call[c].sync = 0 /\ job[c].state # "none"
            \/ /\ call[c].res \in {"none", "ErrQueueFull", "ErrQueueClosed"}
               /\ call[c].sync = 1 /\ job[c] = NewJob

\* C21: j.run is only invoked when the check at the head of the attempt
\* loop has found the job's context live, so once the context has ended
\* (deadline elapsed or parent cancelled) no run starts, and a job whose
\* context had ended when it was dequeued has run invoked zero times; a
\* job stopped by that check ends as a failure whose error is the
\* context's, with one failure record, and every failed job is counted
\* once in ErrorCount.
C21_NoRunAfterDeadline ==
    /\ [][\A j \in Calls :
            /\ job'[j].runs > job[j].runs => ctxErr[j] = "none"
            /\ (job[j].state = "queued" /\ ctxErr[j] = "done") =>
                   job'[j].runs = 0]_vars
    /\ [](\A j \in Calls :
            /\ job[j].state = "deadline" =>
                 /\ ctxErr[j] = "done"
                 /\ job[j].lastErr = ErrContext
                 /\ Len(Outcomes(j)) = 1
                 /\ Outcomes(j)[1].event = "send.fail"
                 /\ Outcomes(j)[1].err = ErrContext
                 /\ Len(job[j].results) = job[j].runs
                 /\ ~LastRunOk(j)
            /\ (ctxErr[j] = "done" /\ job[j].runs = 0 /\ Terminal(j)) =>
                 job[j].state = "deadline")
    /\ [](errs <= Cardinality({j \in Calls :
                                 job[j].state \in {"failed", "deadline"}}))
    /\ []((\A j \in Calls : ~Handled(j)) =>
             errs = Cardinality({j \in Calls :
                                   job[j].state \in {"failed", "deadline"}}))

\* C21 witness: a job whose context had ended when it was dequeued has
\* ended on the deadline check with run never invoked, counted once.
C21_Witness ==
    \E j \in Calls :
        /\ job[j].state = "deadline"
        /\ job[j].runs = 0
        /\ job[j].attempt = 1
        /\ errs = 1

\* The jobs a worker is handling.
InHand == {j \in Calls : Handled(j)}

\* C24: the pool is fixed: until Close closes the queue the dispatcher has
\* exactly Workers workers, and never more; every worker is either
\* waiting in the receive or handling one job of its own, so at most
\* Workers jobs are in hand at any moment; a job is in the queue at most
\* once and only between its acceptance and its one dequeue, it is
\* dequeued once, by one worker, from the head of the queue, and the runs
\* of one job are those of that one handleJob call, one after another.
C24_FixedPool ==
    /\ [](/\ wg <= opts.Workers
          /\ ~jobsClosed => wg = opts.Workers
          /\ waiting + Cardinality(InHand) = wg
          /\ Cardinality(InHand) <= opts.Workers
          /\ \A i, k \in 1..Len(jobs) : jobs[i] = jobs[k] => i = k
          /\ \A j \in Calls :
                /\ job[j].state = "queued" <=> \E i \in 1..Len(jobs) : jobs[i] = j
                /\ Len(SelectSeq(job[j].log,
                                 LAMBDA r : r.event = "send.start")) =
                       IF job[j].state \in {"none", "queued"} THEN 0 ELSE 1
                /\ job[j].runs = Len(job[j].results)
                /\ job[j].runs <= job[j].attempt)
    /\ [][\A j \in Calls :
            /\ (job[j].state # "attempt" /\ job'[j].state = "attempt"
                    /\ job[j].state # "backoff") =>
                 /\ job[j].state = "queued"
                 /\ jobs # <<>> /\ Head(jobs) = j
                 /\ waiting' = waiting - 1
            /\ job'[j].runs > job[j].runs =>
                 /\ Handled(j)
                 /\ job'[j].runs = job[j].runs + 1
                 /\ \A i \in Calls \ {j} : job'[i].runs = job[i].runs
            /\ ~Handled(j) => job'[j].runs = job[j].runs]_vars

\* C24 witness: the one worker of a pool of one is handling a job, which
\* it has run once, a further accepted job waits in the queue, and Close
\* has not begun.
C24_Witness ==
    /\ opts.Workers = 1
    /\ Cardinality(InHand) = 1
    /\ waiting = 0
    /\ wg = 1
    /\ ~stop
    /\ jobs # <<>>
    /\ \E j \in InHand : job[j].runs > 0

\* The accepted jobs that are still in the queue, in the order of their
\* acceptance.
QueuedInOrder == SelectSeq(order.jobs, LAMBDA j : job[j].state = "queued")

\* C25: the queue holds the accepted jobs that wait, oldest acceptance
\* first; an accepted job joins the order of acceptance as its newest, and
\* the job a worker dequeues is the oldest accepted job still queued: jobs
\* are dequeued in the order of their acceptance.  With one worker
\* handleJob returns for the jobs in that same order: the job that reaches
\* its terminal outcome is the oldest accepted job that had not.
C25_Fifo ==
    /\ [](/\ jobs = QueuedInOrder
          /\ \A i, k \in 1..Len(order.jobs) :
                order.jobs[i] = order.jobs[k] => i = k
          /\ \A j \in Calls :
                (job[j].state # "none" /\ ~Terminal(j)) =>
                    \E i \in 1..Len(order.jobs) : order.jobs[i] = j
          /\ opts.Workers = 1 =>
                \A i \in 1..Len(order.jobs) : ~Terminal(order.jobs[i]))
    /\ [][\A j \in Calls :
            /\ (job[j].state = "none" /\ job'[j].state # "none") =>
                   /\ job'[j].state = "queued"
                   /\ order'.jobs = Append(order.jobs, j)
            /\ (job[j].state = "queued" /\ job'[j].state # "queued") =>
                   /\ QueuedInOrder # <<>> /\ Head(QueuedInOrder) = j
                   /\ jobs' = Tail(jobs)
            /\ (opts.Workers = 1 /\ ~Terminal(j) /\ Terminal(j)') =>
                   /\ Head(order.jobs) = j
                   /\ \A i \in Calls \ {j} :
                          (job[i].state # "none" /\ ~Terminal(i)) =>
                              \E a, b \in 1..Len(order.jobs) :
                                  /\ a < b
                                  /\ order.jobs[a] = j
                                  /\ order.jobs[b] = i]_vars

\* C25 witness: with more than one worker, a job accepted later has
\* reached its terminal outcome while a job accepted before it is still
\* in a worker's hands.
C25_Witness ==
    /\ opts.Workers > 1
    /\ \E a, b \in 1..Len(order.jobs) :
          /\ a < b
          /\ Handled(order.jobs[a])
          /\ Terminal(order.jobs[b])

\* C26 (as claimed): the attempt count of a job's failure record is the
\* number of times run was invoked for the job, as the attempt count of
\* the success record is (which is left out of the record when it is 1).
C26_FailureAttemptsAreRuns ==
    \A j \in Calls : \A i \in 1..Len(Outcomes(j)) :
        LET r == Outcomes(j)[i]
        IN /\ r.event = "send.fail" => r.attempt = job[j].runs
           /\ r.event = "send.success" =>
                 r.attempt = IF job[j].runs > 1 THEN job[j].runs ELSE 0

\* C23: the first call of base.RoundTrip is given the caller's request
\* with the caller's body; every later call is given a clone of it; the
\* clone of a request with a GetBody carries the body that a call of
\* GetBody made for that attempt returned, so no body is sent twice; the
\* clone of a request without a body carries none; and a request with a
\* body and no GetBody is sent once only.
C23_BodyReplay ==
    \A r \in RoundTrips :
        LET t == rt[r].tries IN
        /\ \A i \in 1..Len(t) :
              /\ i = 1 => /\ t[i].req = "orig"
                          /\ t[i].body = IF rt[r].body = "none" THEN "none"
                                         ELSE "orig"
                          /\ t[i].gen = 0
              /\ i > 1 => /\ t[i].req = "clone"
                          /\ rt[r].body # "oneshot"
                          /\ rt[r].body = "replay" =>
                                 t[i].body = "fresh" /\ t[i].gen = i - 1
                          /\ rt[r].body = "none" =>
                                 t[i].body = "none" /\ t[i].gen = 0
        /\ \A i, k \in 1..Len(t) :
              (i # k /\ t[i].body # "none") =>
                  <<t[i].body, t[i].gen>> # <<t[k].body, t[k].gen>>
        /\ rt[r].gets <= Len(t)

\* C23 witness: one call has retried a request with a GetBody to the last
\* attempt, another has retried a request without a body.
C23_Witness ==
    \E a, b \in RoundTrips :
        /\ rt[a].body = "replay" /\ Len(rt[a].tries) = defaultRetryAttempts + 1
        /\ rt[a].gets = defaultRetryAttempts
        /\ rt[b].body = "none" /\ Len(rt[b].tries) > 1

Earlier(p, t) == IF p.ok /\ p.at < t THEN p.at ELSE t

\* C22: the deadline of deadlineCtx is the earlier of the deadline of the
\* context given to Enqueue and the instant of the handleJob call plus
\* MaxDuration; that instant is not before the Enqueue, and the time
\* between the two takes nothing from MaxDuration: with no earlier parent
\* deadline the whole of MaxDuration is left when handleJob begins, and
\* deadlineCtx.Err() is nil before the deadline and not after.
C22_DeadlineFromStart ==
    dl.pc = "handled" =>
        /\ dl.enq <= dl.start
        /\ dl.deadline.ok
        /\ dl.deadline.at = Earlier(dl.parent, dl.start + MaxDuration)
        /\ ~(dl.parent.ok /\ dl.parent.at < dl.start + MaxDuration) =>
               dl.deadline.at - dl.start = MaxDuration
        /\ dl.read >= dl.start =>
               (dl.err = NoErr <=>
                    dl.read < Earlier(dl.parent, dl.start + MaxDuration))

\* C22 witness: a job that waited MaxDuration in the queue, with no parent
\* deadline, is found live by handleJob after its start.
C22_Witness ==
    /\ dl.pc = "handled"
    /\ ~dl.parent.ok
    /\ dl.start - dl.enq >= MaxDuration
    /\ dl.read > dl.start
    /\ dl.err = NoErr

\* Every accepted job reaches a terminal outcome.
JobsEnd == \A j \in Calls : (job[j].state = "queued") ~> Terminal(j)

\* Every Close call that has begun returns.
CloseReturns == \A k \in Closers : (closer[k] # "idle") ~> (closer[k] = "returned")

\* An Enqueue call at its send can take its step whatever the workers do
\* and whatever the queue holds, and the call ends.
EnqueueEnds ==
    /\ \A c \in Calls : (call[c].pc = "send") ~> (call[c].pc = "done")
    /\ [](\A c \in Calls : call[c].pc = "send" => ENABLED EnqueueSend(c))

\* C27 (as claimed): under the fair scheduler every accepted job reaches
\* a terminal outcome, whether Close is called or not, every Close call
\* that has begun returns, and every Enqueue call returns, waiting for no
\* worker: it ends, and it ends with nil or an error as its result.
C27_Liveness ==
    /\ JobsEnd
    /\ CloseReturns
    /\ EnqueueEnds
    /\ [](\A c \in Calls :
            call[c].pc = "done" =>
                call[c].res \in {"nil", "ErrQueueFull", "ErrQueueClosed",
                                 "ErrNilRun", "none"})

\* Handler call i has sent its update to next after the test of the
\* user's last-seen time.
Passed(i) ==
    /\ rl.h[i].pc = "done" /\ rl.h[i].ret = "next"
    /\ rl.h[i].user # NoUser /\ rl.h[i].kind \notin Exclude

\* C30: with Interval > 0, of any two updates of one user, of kinds not
\* excluded, that were sent to next, the instants read by time.Now() are
\* at least Interval apart, however the handler calls interleave; a call
\* that finds its update too soon returns nil, has not called next and
\* leaves userLastSeen as it was; and a call changes, and is decided by,
\* the entry of its own user only.
C30_RateLimit ==
    /\ [](\A a, b \in Handlers :
            (a # b /\ Passed(a) /\ Passed(b) /\ rl.h[a].user = rl.h[b].user) =>
                \/ rl.h[a].now - rl.h[b].now >= Interval
                \/ rl.h[b].now - rl.h[a].now >= Interval)
    /\ [](\A i \in Handlers :
            /\ rl.h[i].pc = "done" =>
                 /\ rl.h[i].next + rl.h[i].limited = 1
                 /\ rl.h[i].ret = IF rl.h[i].next = 1 THEN "next" ELSE "nil"
            /\ rl.h[i].pc # "done" => rl.h[i].next = 0 /\ rl.h[i].limited = 0
            /\ rl.h[i].pc \in {"locked", "store"} <=> rl.mu = i)
    /\ [][\A i \in Handlers :
            /\ (rl.h[i].pc = "locked" /\ rl'.h[i].pc # "locked") =>
                 (rl'.h[i].limited = 1 <=>
                    /\ rl.lastSeen[rl.h[i].user] # NotSeen
                    /\ rl.h[i].now - rl.lastSeen[rl.h[i].user] < Interval)
            /\ rl'.h[i].limited > rl.h[i].limited =>
                 rl'.lastSeen = rl.lastSeen
            /\ \A u \in Users :
                 (rl'.lastSeen[u] # rl.lastSeen[u] /\ rl.h[i].pc = "store") =>
                     /\ rl.h[i].user = u
                     /\ rl'.lastSeen[u] = rl.h[i].now
                     /\ Passed(i)']_vars
    /\ [][(rl'.lastSeen # rl.lastSeen) =>
             \E i \in Handlers : rl.h[i].pc = "store" /\ Passed(i)']_vars

\* C30 witness: of two updates of one user, both sent to next, the
\* second was read Interval after the first, and the user's last-seen
\* time is that of the second.
C30_Witness ==
    \E a, b \in Handlers :
        /\ rl.h[a].user = rl.h[b].user
        /\ Passed(a) /\ Passed(b)
        /\ rl.h[b].now = rl.h[a].now + Interval
        /\ rl.lastSeen[rl.h[a].user] = rl.h[b].now

\* The teardown of RunTelegram as the code orders it: with a dispatcher
\* obtained RunTelegram has called dispatcher.Close() once when it
\* returns, and not at all without one; on the paths past bot.Start the
\* call comes after the bot has stopped and the OnStop hook, if any, has
\* run; the helpers' pointer is cleared only once Close has returned.
TeardownOrder ==
    /\ [](/\ tg.closes <= 1
          /\ tg.pc = "returned" =>
                /\ tg.closes = IF tg.path = "newBot" THEN 0 ELSE 1
                /\ tg.path # "newBot" => closer[1] = "returned"
                /\ ~tg.ptr
          /\ tg.pc \in {"start", "obtained", "started", "stopped"} =>
                tg.closes = 0 /\ closer[1] = "idle" /\ ~stop
          /\ \A k \in Closers : k > 1 => closer[k] = "idle")
    /\ [][/\ tg'.closes > tg.closes =>
                \/ tg.pc = "obtained" /\ tg'.path = "onStart"
                \/ tg.pc = "stopped" /\ tg.path \in {"ctx", "bot"}
          /\ (tg.ptr /\ ~tg'.ptr) =>
                tg.closes = 1 /\ closer[1] = "returned"]_vars

\* C29 (as claimed): the teardown is ordered as above, so of the helper
\* sends that are over each was either accepted by the dispatcher, its
\* job handled to a terminal outcome by the time Close returns, or run
\* by the helper itself; none is lost.
C29_Teardown ==
    /\ TeardownOrder
    /\ [](\A c \in Calls :
            call[c].pc = "done" =>
                \/ /\ Accepted(c) /\ call[c].sync = 0
                   /\ closer[1] = "returned" => Terminal(c)
                \/ /\ call[c].res \in {"none", "ErrQueueFull", "ErrQueueClosed"}
                   /\ call[c].sync = 1 /\ job[c] = NewJob)

====
